---- MODULE Spec2Model ----
(***************************************************************************)
(* A model of the giphy_adapter request/retry/transform pipeline:          *)
(* GiphyAdapter (adapter.py) and validate_search_params (utils.py).        *)
(*                                                                         *)
(* Python values are records [ty, n, s]: ty is the Python type, n the      *)
(* number an int or bool holds (a float holds n/2), s the text of a str.   *)
(* Strings the code converts (the query it strips, the numerals it passes  *)
(* to int()) are records [ty, n, chars] whose chars are one-character      *)
(* strings, so that strip() and int() are computed.                        *)
(*                                                                         *)
(* Spec is the adapter used by one caller at a time, on every input;       *)
(* SpecValidate is validate_search_params alone on all its inputs;         *)
(* SpecTransform is search_gifs' transform of one upstream body.           *)
(***************************************************************************)
EXTENDS Integers, Sequences, FiniteSets, TLC

\* ------------------------------------------------------------------ bounds
MaxRetry == 3
MaxCloses == 2
MaxCalls == 2
MaxRecords == 2
MaxPieces == 4

\* -------------------------------------------------------- python values
Absent == [ty |-> "absent", n |-> 0, s |-> ""]
None == [ty |-> "none", n |-> 0, s |-> ""]
PyInt(k) == [ty |-> "int", n |-> k, s |-> ""]
PyBool(b) == [ty |-> "bool", n |-> IF b THEN 1 ELSE 0, s |-> ""]
\* the float h/2 (PyHalf(5) is 2.5, PyHalf(100) is 50.0)
PyHalf(h) == [ty |-> "float", n |-> h, s |-> ""]
PyStr(t) == [ty |-> "str", n |-> 0, s |-> t]
PyList == [ty |-> "list", n |-> 0, s |-> ""]

\* isinstance(x, int): bool is a subclass of int
IsInstanceInt(x) == x.ty \in {"int", "bool"}
IsNumber(x) == x.ty \in {"int", "bool", "float"}
\* twice the numeric value, so that halves stay integers
Twice(x) == IF x.ty = "float" THEN x.n ELSE 2 * x.n
\* x < y on numbers
PyLess(x, y) == Twice(x) < Twice(y)

\* ------------------------------------------------------------ exceptions
\* an exception: its class, str(error) as pieces of text, and .status when it has one
NoError == [cls |-> "", msg |-> <<>>, status |-> 0]
Exc(c, m) == [cls |-> c, msg |-> m, status |-> 0]
\* exceptions.py: GiphyError(Exception); GiphyTimeout, GiphyValidation(GiphyError).
\* aiohttp: ClientResponseError(ClientError), ClientError(Exception).
Bases(cls) ==
    CASE cls = "GiphyTimeout" -> {"GiphyTimeout", "GiphyError", "Exception"}
      [] cls = "GiphyValidation" -> {"GiphyValidation", "GiphyError", "Exception"}
      [] cls = "GiphyError" -> {"GiphyError", "Exception"}
      [] cls = "ClientResponseError" ->
            {"ClientResponseError", "ClientError", "Exception"}
      [] cls = "ClientError" -> {"ClientError", "Exception"}
      [] OTHER -> {cls, "Exception"}
IsInstance(e, cls) == cls \in Bases(e.cls)

\* ----------------------------------------------- validate_search_params
ValidRatings == {"g", "pg", "pg-13", "r"}

LimitDefault == 10

\* utils.py validate_search_params: NoError when it returns, else what it raises
validate_search_params_MutNoUpper(limit, offset, rating) ==
    LET l == IF limit.ty = "absent" THEN PyInt(LimitDefault) ELSE limit
        o == IF offset.ty = "absent" THEN PyInt(0) ELSE offset
        r == IF rating.ty = "absent" THEN PyStr("pg") ELSE rating
    IN  IF ~IsInstanceInt(l) \/ l.n < 1
        THEN Exc("ValueError", <<"Limit must be an integer between 1 and 50">>)
        ELSE IF ~IsInstanceInt(o) \/ o.n < 0
        THEN Exc("ValueError", <<"Offset must be a non-negative integer">>)
        ELSE IF r.ty = "list"
        THEN Exc("TypeError", <<"unhashable type">>)
        ELSE IF ~(r.ty = "str" /\ r.s \in ValidRatings)
        THEN Exc("ValueError", <<"Rating must be one of">>)
        ELSE NoError

validate_search_params(limit, offset, rating) ==
    LET l == IF limit.ty = "absent" THEN PyInt(LimitDefault) ELSE limit
        o == IF offset.ty = "absent" THEN PyInt(0) ELSE offset
        r == IF rating.ty = "absent" THEN PyStr("pg") ELSE rating
    IN  IF ~IsInstanceInt(l) \/ l.n < 1 \/ l.n > 50
        THEN Exc("ValueError", <<"Limit must be an integer between 1 and 50">>)
        ELSE IF ~IsInstanceInt(o) \/ o.n < 0
        THEN Exc("ValueError", <<"Offset must be a non-negative integer">>)
        ELSE IF r.ty = "list"
        THEN Exc("TypeError", <<"unhashable type">>)
        ELSE IF ~(r.ty = "str" /\ r.s \in ValidRatings)
        THEN Exc("ValueError", <<"Rating must be one of">>)
        ELSE NoError

\* ---------------------------------------------------- validation inputs
LimitInputs ==
    {Absent, None, PyStr("10"), PyBool(TRUE), PyBool(FALSE), PyHalf(5), PyHalf(100)}
        \cup {PyInt(k) : k \in {-1, 0, 1, 10, 50, 51, 100}}
OffsetInputs ==
    {Absent, None, PyStr("0"), PyHalf(3)} \cup {PyInt(k) : k \in {-1, 0, 1000}}
RatingInputs ==
    {Absent, None, PyList, PyInt(5)}
        \cup {PyStr(t) : t \in ValidRatings \cup {"invalid", "PG", ""}}

VARIABLES vLimit, vOffset, vRating, vOut, vCalled
vvars == <<vLimit, vOffset, vRating, vOut, vCalled>>

ValidateInit ==
    /\ vLimit \in LimitInputs
    /\ vOffset \in OffsetInputs
    /\ vRating \in RatingInputs
    /\ vOut = NoError
    /\ vCalled = FALSE

\* one call validate_search_params(limit=.., offset=.., rating=..)
CallValidate ==
    /\ ~vCalled
    /\ vCalled' = TRUE
    /\ vOut' = validate_search_params(vLimit, vOffset, vRating)
    /\ UNCHANGED <<vLimit, vOffset, vRating>>

\* ------------------------------------------------------- text and numerals
\* a str as its characters; a non-str query keeps ty and n
PyText(cs) == [ty |-> "str", n |-> 0, chars |-> cs]
TextInt(k) == [ty |-> "int", n |-> k, chars |-> <<>>]
TextNone == [ty |-> "none", n |-> 0, chars |-> <<>>]
TextAbsent == [ty |-> "absent", n |-> 0, chars |-> <<>>]

Whitespace == {" ", "\t", "\n"}

RECURSIVE LStrip(_)
LStrip(cs) ==
    IF cs # <<>> /\ Head(cs) \in Whitespace THEN LStrip(Tail(cs)) ELSE cs

RECURSIVE RStrip(_)
RStrip(cs) ==
    IF cs # <<>> /\ cs[Len(cs)] \in Whitespace
    THEN RStrip(SubSeq(cs, 1, Len(cs) - 1))
    ELSE cs

\* str.strip()
Strip(cs) == RStrip(LStrip(cs))

\* ------------------------------------------------------- extract_keywords
\* utils.py 20-24: the stop words, as sequences of characters
stop_words ==
    {<<"t", "h", "e">>, <<"i", "s">>, <<"a">>, <<"a", "n">>, <<"a", "n", "d">>,
     <<"o", "r">>, <<"b", "u", "t">>, <<"i", "n">>, <<"o", "n">>, <<"a", "t">>,
     <<"t", "o">>, <<"f", "o", "r">>, <<"o", "f">>, <<"w", "i", "t", "h">>,
     <<"b", "y">>, <<"t", "h", "i", "s">>, <<"t", "h", "a", "t">>,
     <<"t", "h", "e", "s", "e">>, <<"t", "h", "o", "s", "e">>, <<"i">>, <<"m", "e">>,
     <<"m", "y">>, <<"y", "o", "u">>, <<"y", "o", "u", "r">>, <<"h", "e">>,
     <<"s", "h", "e">>, <<"i", "t">>, <<"w", "e">>, <<"t", "h", "e", "y">>}

UpperCase == <<"A", "B", "C", "D", "E", "F", "G", "H", "I", "J", "K", "L", "M",
               "N", "O", "P", "Q", "R", "S", "T", "U", "V", "W", "X", "Y", "Z">>
LowerCase == <<"a", "b", "c", "d", "e", "f", "g", "h", "i", "j", "k", "l", "m",
               "n", "o", "p", "q", "r", "s", "t", "u", "v", "w", "x", "y", "z">>
\* str.lower() on one character, and on a text
LowerChar(ch) ==
    IF \E i \in 1..26 : UpperCase[i] = ch
    THEN LowerCase[CHOOSE i \in 1..26 : UpperCase[i] = ch]
    ELSE ch
Lower(cs) == [i \in 1..Len(cs) |-> LowerChar(cs[i])]

RECURSIVE FirstWord(_)
\* the leading run of non-whitespace characters
FirstWord(cs) ==
    IF cs = <<>> \/ Head(cs) \in Whitespace THEN <<>>
    ELSE <<Head(cs)>> \o FirstWord(Tail(cs))

RECURSIVE Split(_)
\* str.split(): the words between runs of whitespace
Split(cs) ==
    LET s == LStrip(cs)
    IN  IF s = <<>> THEN <<>>
        ELSE <<FirstWord(s)>> \o Split(SubSeq(s, Len(FirstWord(s)) + 1, Len(s)))

RECURSIVE Join(_)
\* ' '.join(words)
Join(words) ==
    IF words = <<>> THEN <<>>
    ELSE IF Len(words) = 1 THEN words[1]
    ELSE words[1] \o <<" ">> \o Join(Tail(words))

\* s[:n] of a list, a negative n counting from the end
Prefix(s, n) ==
    LET stop == IF n >= 0 THEN n ELSE Len(s) + n
    IN  IF stop <= 0 THEN <<>>
        ELSE IF stop >= Len(s) THEN s
        ELSE SubSeq(s, 1, stop)

\* utils.py 30-33: len(word) > 2 and word not in stop_words
IsKeyword_MutKeepsStopWords(word) == Len(word) > 2
IsKeyword(word) == Len(word) > 2 /\ word \notin stop_words

\* utils.py extract_keywords
extract_keywords(message, max_keywords) ==
    LET words == Split(Strip(Lower(message)))
        keywords == SelectSeq(words, IsKeyword)
    IN  IF keywords # <<>> THEN Join(Prefix(keywords, max_keywords))
        ELSE Strip(message)

\* utils.py 8: max_keywords: int = 3
MaxKeywordsDefault == 3

\* bool(x) of a query value
Truthy(x) ==
    CASE x.ty = "str" -> x.chars # <<>>
      [] x.ty \in {"int", "bool", "float"} -> x.n # 0
      [] x.ty \in {"none", "absent"} -> FALSE
      [] OTHER -> TRUE

\* min(x, 50) as Python computes it: x unless 50 < x; TypeError when x is no number
ClampOk(x) == IsNumber(x)
MaxLimit == 50
ClampLimit_MutNoClamp(x) == x
ClampLimit(x) == IF PyLess(PyInt(MaxLimit), x) THEN PyInt(MaxLimit) ELSE x

\* ------------------------------------------------------------ int(...)
Digits == <<"0", "1", "2", "3", "4", "5", "6", "7", "8", "9">>
IsDigit(ch) == \E i \in 1..10 : Digits[i] = ch
DigitVal(ch) == (CHOOSE i \in 1..10 : Digits[i] = ch) - 1

RECURSIVE DigitsVal(_)
\* the value of a non-empty run of digits
DigitsVal(cs) ==
    IF cs = <<>> THEN 0
    ELSE 10 * DigitsVal(SubSeq(cs, 1, Len(cs) - 1)) + DigitVal(cs[Len(cs)])

AllDigits(cs) == cs # <<>> /\ \A i \in 1..Len(cs) : IsDigit(cs[i])

\* a numeral of upstream JSON: a number, a string, null, or the key missing
NumInt(k) == [ty |-> "int", n |-> k, chars |-> <<>>]
NumStr(cs) == [ty |-> "str", n |-> 0, chars |-> cs]
NumNone == [ty |-> "none", n |-> 0, chars |-> <<>>]
NumAbsent == [ty |-> "absent", n |-> 0, chars |-> <<>>]

IntOk(k) == [exc |-> "", n |-> k]
IntErr(e) == [exc |-> e, n |-> 0]

\* int(str): surrounding whitespace, an optional sign, then digits
IntOfStr(cs) ==
    LET s == Strip(cs)
        signed == s # <<>> /\ Head(s) \in {"+", "-"}
        body == IF signed THEN Tail(s) ELSE s
    IN  IF AllDigits(body)
        THEN IntOk(IF signed /\ Head(s) = "-" THEN 0 - DigitsVal(body)
                   ELSE DigitsVal(body))
        ELSE IntErr("ValueError")

IntOf_MutStringsAreZero(x) ==
    CASE x.ty = "absent" -> IntOk(0)
      [] x.ty \in {"int", "bool"} -> IntOk(x.n)
      [] x.ty = "str" -> IF IntOfStr(x.chars).exc = "" THEN IntOk(0)
                         ELSE IntOfStr(x.chars)
      [] OTHER -> IntErr("TypeError")

\* int(d.get(key, 0)) of adapter.py: a missing key gives int(0)
IntOf(x) ==
    CASE x.ty = "absent" -> IntOk(0)
      [] x.ty \in {"int", "bool"} -> IntOk(x.n)
      [] x.ty = "str" -> IntOfStr(x.chars)
      [] OTHER -> IntErr("TypeError")

\* ------------------------------------------------------- upstream records
\* one image section of an upstream record: a mapping, null, or missing
SecDict(u, w, h, z) == [ty |-> "dict", url |-> u, width |-> w, height |-> h, size |-> z]
SecAbsent == [ty |-> "absent", url |-> "", width |-> NumAbsent, height |-> NumAbsent,
              size |-> NumAbsent]
SecNone == [ty |-> "none", url |-> "", width |-> NumAbsent, height |-> NumAbsent,
            size |-> NumAbsent]
\* the 'images' mapping of a record: original, fixed_height_small, fixed_height_small_still
Images(o, p, t) == [ty |-> "dict", original |-> o, small |-> p, still |-> t]
ImagesAbsent == [ty |-> "absent", original |-> SecAbsent, small |-> SecAbsent,
                 still |-> SecAbsent]
ImagesNone == [ty |-> "none", original |-> SecAbsent, small |-> SecAbsent,
               still |-> SecAbsent]
Gif(i, im) == [id |-> i, images |-> im]

\* images.get(name, {}): every section of a missing 'images' is missing
Section(images, name) ==
    IF images.ty = "absent" THEN SecAbsent
    ELSE CASE name = "original" -> images.original
           [] name = "small" -> images.small
           [] OTHER -> images.still

\* models.py GifImage
GifImage(u, w, h, z) == [url |-> u, width |-> w, height |-> h, size |-> z]

\* the exceptions of building one GifImage, in evaluation order: url, width,
\* height and (for original only) size; "" where the step succeeds
SectionSteps(images, name, readsSize) ==
    LET sec == Section(images, name)
    IN  IF images.ty = "none" \/ sec.ty = "none"
        THEN <<"AttributeError">>
        ELSE <<"", IntOf(sec.width).exc, IntOf(sec.height).exc>>
             \o (IF readsSize THEN <<IntOf(sec.size).exc>> ELSE <<>>)

BuildImage(images, name, readsSize) ==
    LET sec == Section(images, name)
    IN  GifImage(sec.url, IntOf(sec.width).n, IntOf(sec.height).n,
                 IF readsSize THEN IntOf(sec.size).n ELSE 0)

RECURSIVE FirstExc(_)
FirstExc(steps) ==
    IF steps = <<>> THEN ""
    ELSE IF Head(steps) # "" THEN Head(steps)
    ELSE FirstExc(Tail(steps))

\* adapter.py 231-263: the exception building GifData raises ("" for none)
RecordExc(g) ==
    FirstExc(SectionSteps(g.images, "original", TRUE)
             \o SectionSteps(g.images, "small", FALSE)
             \o SectionSteps(g.images, "still", FALSE))

\* models.py GifData (the fields the pipeline computes; the rest is copied)
GifData(g) ==
    [id |-> g.id,
     original |-> BuildImage(g.images, "original", TRUE),
     preview |-> BuildImage(g.images, "small", FALSE),
     thumbnail |-> BuildImage(g.images, "still", FALSE)]

\* except (ValueError, KeyError): continue
Dropped(g) == RecordExc(g) \in {"ValueError", "KeyError"}

RECURSIVE TransformLoop(_)
\* the for loop of _transform_response: [exc, gifs]; an exception the loop does
\* not catch ends it
TransformLoop(data) ==
    IF data = <<>> THEN [exc |-> "", gifs |-> <<>>]
    ELSE LET g == Head(data)
             e == RecordExc(g)
         IN  IF e # "" /\ ~Dropped(g) THEN [exc |-> e, gifs |-> <<>>]
             ELSE LET rest == TransformLoop(Tail(data))
                  IN  IF rest.exc # "" THEN rest
                      ELSE [exc |-> "",
                            gifs |-> (IF e = "" THEN <<GifData(g)>> ELSE <<>>)
                                     \o rest.gifs]

\* ------------------------------------------------------------- envelopes
\* models.py PaginationData / AdapterResponse; None fields carry a flag
NoPage == [total |-> 0, count |-> 0, offset |-> 0]
\* timestamp: whether the error carries time.time()
NoErr == [type |-> "", message |-> <<>>, method |-> "", timestamp |-> FALSE]
NoMessage == [text |-> "", n |-> 0]
AdapterResponse(ok, dNone, d, pNone, pg, m, eNone, e) ==
    [success |-> ok, dataNone |-> dNone, data |-> d, pageNone |-> pNone,
     pagination |-> pg, message |-> m, errorNone |-> eNone, error |-> e]
NoResponse == AdapterResponse(FALSE, TRUE, <<>>, TRUE, NoPage, NoMessage, TRUE, NoErr)

\* an upstream JSON body: data, pagination (total_count, count, offset)
Body(d, tot, cnt, off) == [data |-> d, total |-> tot, count |-> cnt, offset |-> off]

\* adapter.py _transform_response: [exc, response]
_transform_response(body) ==
    LET r == TransformLoop(body.data)
    IN  IF r.exc # "" THEN [exc |-> Exc(r.exc, <<"transform">>), response |-> NoResponse]
        ELSE [exc |-> NoError,
              response |->
                AdapterResponse(TRUE, FALSE, r.gifs, FALSE,
                    [total |-> body.total, count |-> body.count, offset |-> body.offset],
                    [text |-> "Found GIFs", n |-> Len(r.gifs)], TRUE, NoErr)]

\* adapter.py 296-309: the ErrorType of an exception
ErrorTypeOf_MutNoTimeout(error) ==
    IF IsInstance(error, "GiphyValidation") THEN "VALIDATION_ERROR"
    ELSE IF IsInstance(error, "ClientResponseError")
    THEN (IF 400 <= error.status /\ error.status < 500 THEN "CLIENT_ERROR"
          ELSE IF 500 <= error.status /\ error.status < 600 THEN "SERVER_ERROR"
          ELSE "UNKNOWN_ERROR")
    ELSE IF IsInstance(error, "ClientError") THEN "NETWORK_ERROR"
    ELSE "UNKNOWN_ERROR"

ErrorTypeOf_MutNetworkFirst(error) ==
    IF IsInstance(error, "GiphyTimeout") THEN "TIMEOUT"
    ELSE IF IsInstance(error, "GiphyValidation") THEN "VALIDATION_ERROR"
    ELSE IF IsInstance(error, "ClientError") THEN "NETWORK_ERROR"
    ELSE IF IsInstance(error, "ClientResponseError")
    THEN (IF 400 <= error.status /\ error.status < 500 THEN "CLIENT_ERROR"
          ELSE IF 500 <= error.status /\ error.status < 600 THEN "SERVER_ERROR"
          ELSE "UNKNOWN_ERROR")
    ELSE "UNKNOWN_ERROR"

ErrorTypeOf(error) ==
    IF IsInstance(error, "GiphyTimeout") THEN "TIMEOUT"
    ELSE IF IsInstance(error, "GiphyValidation") THEN "VALIDATION_ERROR"
    ELSE IF IsInstance(error, "ClientResponseError")
    THEN (IF 400 <= error.status /\ error.status < 500 THEN "CLIENT_ERROR"
          ELSE IF 500 <= error.status /\ error.status < 600 THEN "SERVER_ERROR"
          ELSE "UNKNOWN_ERROR")
    ELSE IF IsInstance(error, "ClientError") THEN "NETWORK_ERROR"
    ELSE "UNKNOWN_ERROR"

_handle_error_MutKeepsData(error, method) ==
    AdapterResponse(FALSE, FALSE, <<>>, TRUE, NoPage, NoMessage, FALSE,
        [type |-> ErrorTypeOf(error), message |-> error.msg, method |-> method,
         timestamp |-> TRUE])

\* adapter.py _handle_error
_handle_error(error, method) ==
    AdapterResponse(FALSE, TRUE, <<>>, TRUE, NoPage, NoMessage, FALSE,
        [type |-> ErrorTypeOf(error), message |-> error.msg, method |-> method,
         timestamp |-> TRUE])

\* ------------------------------------------------------ attempt outcomes
\* what one session.get(...) round trip does: it times out, fails below HTTP,
\* or answers with an HTTP status, a body and the body's meta.status (0: no meta)
Outcome(k, st, m, b) == [kind |-> k, status |-> st, meta |-> m, body |-> b]
EmptyBody == Body(<<>>, 0, 0, 0)
TimeoutOutcome == Outcome("timeout", 0, 0, EmptyBody)
TransportOutcome == Outcome("transport", 0, 0, EmptyBody)
HttpOutcome(st) == Outcome("response", st, 0, EmptyBody)
ApiErrorOutcome(m) == Outcome("response", 200, m, EmptyBody)
OkOutcome(b) == Outcome("response", 200, 200, b)

Raised_MutIgnoresMeta(o) ==
    CASE o.kind = "timeout" -> Exc("TimeoutError", <<"">>)
      [] o.kind = "transport" -> Exc("ClientError", <<"Connection failed">>)
      [] o.status # 200 ->
            [cls |-> "ClientResponseError", msg |-> <<"HTTP ", ToString(o.status)>>,
             status |-> o.status]
      [] OTHER -> NoError

\* adapter.py 177-196: the exception the body of the try raises (NoError: it returns data)
Raised(o) ==
    CASE o.kind = "timeout" -> Exc("TimeoutError", <<"">>)
      [] o.kind = "transport" -> Exc("ClientError", <<"Connection failed">>)
      [] o.status # 200 ->
            [cls |-> "ClientResponseError", msg |-> <<"HTTP ", ToString(o.status)>>,
             status |-> o.status]
      [] o.meta # 200 ->
            Exc("GiphyError", <<"Giphy API Error: ",
                                IF o.meta = 0 THEN "Unknown error" ELSE "msg">>)
      [] OTHER -> NoError

\* adapter.py 198-209: the except clauses, in order; what last_error becomes
Caught(e) ==
    IF IsInstance(e, "TimeoutError") THEN Exc("GiphyTimeout", <<"Request timeout">>)
    ELSE IF IsInstance(e, "ClientError") THEN Exc("GiphyError", <<"Client error: ">> \o e.msg)
    ELSE e

\* adapter.py 212: a wait follows attempt a exactly when a < retry_attempts
WaitsAfter_MutAlways(a, n) == TRUE
WaitsAfter_MutOneMore(a, n) == a <= n
WaitsAfter(a, n) == a < n

\* adapter.py 213: retry_delay * attempt
BackoffDelay_MutConstant(delay, a) == delay
BackoffDelay(delay, a) == delay * a

\* ------------------------------------------------------------ the adapter
VARIABLES
    config,     \* self.config: limit, rating, lang, retry_attempts, retry_delay
    session,    \* self._session: "none", "open" or "closed"
    connector,  \* self.connector: "open" or "closed"
    created,    \* how many ClientSession objects _get_session has constructed
    closes,     \* how many close() calls have run
    call        \* per caller: the operation in progress and what it has done

avars == <<config, session, connector, created, closes, call>>

\* search_gifs applied to one upstream body (adapter.py 87-89), outside the retry loop
VARIABLES tBody, tOut, tCalled
tvars == <<tBody, tOut, tCalled>>
\* _handle_error applied to one exception (adapter.py 285-322)
VARIABLES hError, hMethod, hOut, hCalled
hvars == <<hError, hMethod, hOut, hCalled>>
\* extract_keywords applied to one message (utils.py 8-39)
VARIABLES kMessage, kMax, kOut, kCalled
kvars == <<kMessage, kMax, kOut, kCalled>>
\* the GifService call in progress (service.py 37-122)
VARIABLES svc
\* what the adapter's operations leave alone
pvars == <<vvars, tvars, hvars, kvars, svc>>
vars == <<config, session, connector, created, closes, call,
          vLimit, vOffset, vRating, vOut, vCalled, tBody, tOut, tCalled,
          hError, hMethod, hOut, hCalled, kMessage, kMax, kOut, kCalled, svc>>

Calls == 1..MaxCalls

Args(q, l, o, r) == [query |-> q, limit |-> l, offset |-> o, rating |-> r]
Cat == <<"c", "a", "t">>
BaseArgs == Args(PyText(Cat), Absent, Absent, Absent)
NoParams == [q |-> <<>>, limit |-> Absent, offset |-> Absent, rating |-> Absent,
             lang |-> ""]
\* adapter.py 127: {'q': 'test', 'limit': 1}
HealthParams == [q |-> <<"t", "e", "s", "t">>, limit |-> PyInt(1), offset |-> Absent,
                 rating |-> Absent, lang |-> ""]
NoHealth == [set |-> FALSE, healthy |-> FALSE, error |-> <<>>, timestamp |-> FALSE]

IdleCall ==
    [pc |-> "idle", op |-> "", args |-> BaseArgs, params |-> NoParams, attempt |-> 0,
     requests |-> <<>>, outcomes |-> <<>>, waits |-> <<>>, last_error |-> NoError,
     raised |-> NoError, returned |-> FALSE, result |-> NoResponse, health |-> NoHealth]

\* the parameters of a search once the query check passed (adapter.py 73-83)
SearchParams(args, cfg) ==
    LET lim == IF args.limit.ty = "absent" THEN cfg.limit ELSE args.limit
    IN  IF ~ClampOk(lim)
        THEN [exc |-> Exc("TypeError", <<"'<' not supported">>), params |-> NoParams]
        ELSE LET p == [q |-> Strip(args.query.chars),
                       limit |-> ClampLimit(lim),
                       offset |-> IF args.offset.ty = "absent" THEN PyInt(0)
                                  ELSE args.offset,
                       rating |-> IF args.rating.ty = "absent" THEN cfg.rating
                                  ELSE args.rating,
                       lang |-> cfg.lang]
             IN  [exc |-> validate_search_params(p.limit, p.offset, p.rating),
                  params |-> p]

SearchPrepare_MutNoTypeCheck(args, cfg) ==
    IF ~Truthy(args.query)
    THEN [exc |-> Exc("GiphyValidation",
                      <<"Query parameter is required and must be a string">>),
          params |-> NoParams]
    ELSE SearchParams(args, cfg)

\* adapter.py 69-83: the upfront checks of search_gifs: [exc, params]
SearchPrepare(args, cfg) ==
    IF ~Truthy(args.query) \/ args.query.ty # "str"
    THEN [exc |-> Exc("GiphyValidation",
                      <<"Query parameter is required and must be a string">>),
          params |-> NoParams]
    ELSE SearchParams(args, cfg)

RandomArgsOf_MutKeepOptions(args) == args

\* adapter.py 102: {**options, 'limit': 1, 'offset': 0}
RandomArgsOf(args) == [args EXCEPT !.limit = PyInt(1), !.offset = PyInt(0)]

\* adapter.py 85-89: search_gifs once _make_request returned data
SearchReturn(body) ==
    LET tr == _transform_response(body)
    IN  IF tr.exc # NoError THEN _handle_error(tr.exc, "search_gifs") ELSE tr.response

\* adapter.py 105-117: get_random_gif around the delegated result
RandomWrap(result) ==
    IF result.success /\ ~result.dataNone /\ result.data # <<>>
    THEN AdapterResponse(TRUE, FALSE, <<result.data[1]>>, TRUE, NoPage,
                         [text |-> "GIF found", n |-> 0], TRUE, NoErr)
    ELSE AdapterResponse(TRUE, TRUE, <<>>, TRUE, NoPage,
                         [text |-> "No GIF found for query", n |-> 0], TRUE, NoErr)

Succeed_MutTransformEscapes(k, body) ==
    LET tr == _transform_response(body)
    IN  IF k.op = "health_check"
        THEN [k EXCEPT !.pc = "done", !.returned = TRUE,
                       !.health = [set |-> TRUE, healthy |-> TRUE, error |-> <<>>, timestamp |-> TRUE]]
        ELSE IF tr.exc # NoError THEN [k EXCEPT !.pc = "done", !.raised = tr.exc]
        ELSE [k EXCEPT !.pc = "done", !.returned = TRUE,
                       !.result = IF k.op = "search_gifs" THEN tr.response
                                  ELSE RandomWrap(tr.response)]

\* the operation returns after _make_request returned the body
Succeed(k, body) ==
    CASE k.op = "search_gifs" ->
            [k EXCEPT !.pc = "done", !.returned = TRUE, !.result = SearchReturn(body)]
      [] k.op = "get_random_gif" ->
            [k EXCEPT !.pc = "done", !.returned = TRUE,
                      !.result = RandomWrap(SearchReturn(body))]
      [] OTHER ->
            [k EXCEPT !.pc = "done", !.returned = TRUE,
                      !.health = [set |-> TRUE, healthy |-> TRUE, error |-> <<>>, timestamp |-> TRUE]]

Fail_MutHealthRaises(k, e) ==
    IF k.op = "health_check" THEN [k EXCEPT !.pc = "done", !.raised = e]
    ELSE [k EXCEPT !.pc = "done", !.returned = TRUE,
                   !.result = IF k.op = "search_gifs" THEN _handle_error(e, "search_gifs")
                              ELSE RandomWrap(_handle_error(e, "search_gifs"))]

\* the operation returns after _make_request raised e
Fail(k, e) ==
    CASE k.op = "search_gifs" ->
            [k EXCEPT !.pc = "done", !.returned = TRUE,
                      !.result = _handle_error(e, "search_gifs")]
      [] k.op = "get_random_gif" ->
            [k EXCEPT !.pc = "done", !.returned = TRUE,
                      !.result = RandomWrap(_handle_error(e, "search_gifs"))]
      [] OTHER ->
            [k EXCEPT !.pc = "done", !.returned = TRUE,
                      !.health = [set |-> TRUE, healthy |-> FALSE, error |-> e.msg,
                                   timestamp |-> TRUE]]

\* ------------------------------------------------------------- the inputs
\* adapter.py 38-47 with overrides: the defaults, and a configuration whose
\* default limit exceeds the shared maximum
ConfigOptions == {[limit |-> 10, retry_delay |-> 1], [limit |-> 60, retry_delay |-> 3]}
ConfigWith(limit, n, delay) ==
    [limit |-> PyInt(limit), rating |-> PyStr("pg"), lang |-> "en",
     retry_attempts |-> n, retry_delay |-> delay]
Configs ==
    {ConfigWith(o.limit, n, o.retry_delay) : n \in 0..MaxRetry, o \in ConfigOptions}

Queries ==
    {PyText(<<>>), PyText(Cat), PyText(<<" ", "c", " ">>), TextInt(123), TextInt(0),
     TextNone}
Limits ==
    {PyInt(0), PyInt(7), PyInt(50), PyInt(51), PyInt(100), PyStr("10"), None, PyHalf(121)}
Offsets == {PyInt(-1), PyInt(3), PyStr("0")}
Ratings == {PyStr("r"), PyStr("pg-13"), PyStr("x")}

\* the arguments of a search: one argument at a time away from the defaults,
\* and some with several bad arguments at once
SearchArgs ==
    {BaseArgs}
        \cup {[BaseArgs EXCEPT !.query = q] : q \in Queries}
        \cup {[BaseArgs EXCEPT !.limit = l] : l \in Limits}
        \cup {[BaseArgs EXCEPT !.offset = o] : o \in Offsets}
        \cup {[BaseArgs EXCEPT !.rating = r] : r \in Ratings}
        \cup {Args(PyText(<<>>), PyInt(0), PyInt(-1), PyStr("x")),
              Args(PyText(Cat), PyInt(0), PyInt(-1), PyStr("x")),
              Args(PyText(Cat), PyInt(100), PyInt(-1), PyStr("r")),
              Args(PyText(Cat), PyStr("10"), PyInt(3), PyStr("x"))}
RandomArgs ==
    {BaseArgs, [BaseArgs EXCEPT !.query = PyText(<<>>)],
     Args(PyText(Cat), PyInt(0), PyInt(-1), PyStr("r")),
     [BaseArgs EXCEPT !.rating = PyStr("x")]}

N480 == NumStr(<<"4", "8", "0">>)
N270 == NumStr(<<"2", "7", "0">>)
GoodGif ==
    Gif("g1", Images(SecDict("o.gif", N480, N270, NumStr(<<"9", "9">>)),
                     SecDict("p.gif", NumInt(200), NumStr(<<"1", "1", "3">>),
                             NumStr(<<"7", "7">>)),
                     SecAbsent))
\* a width that is no numeral: int() raises ValueError
BadGif ==
    Gif("g2", Images(SecDict("o.gif", NumStr(<<"a", "b">>), N270, NumAbsent),
                     SecAbsent, SecAbsent))
\* a null width: int(None) raises TypeError
NullGif ==
    Gif("g3", Images(SecDict("o.gif", NumNone, N270, NumAbsent), SecAbsent, SecAbsent))

\* no 'images' key at all
NoImagesGif == Gif("g4", ImagesAbsent)
\* an image section that is null where a mapping is expected: .get raises AttributeError
NonMapGif == Gif("g5", Images(SecDict("o.gif", N480, N270, NumAbsent), SecNone, SecAbsent))
\* a negative width
NegGif ==
    Gif("g6", Images(SecDict("o.gif", NumStr(<<"-", "5">>), N270, NumAbsent),
                     SecAbsent, SecAbsent))

OkBodies ==
    {Body(<<>>, 0, 0, 0), Body(<<GoodGif>>, 100, 1, 0),
     Body(<<GoodGif, BadGif>>, 2, 2, 0), Body(<<GoodGif, NullGif>>, 2, 2, 0),
     Body(<<NoImagesGif, GoodGif>>, 2, 2, 0)}

AttemptOutcomes ==
    {TimeoutOutcome, TransportOutcome, HttpOutcome(404), HttpOutcome(503),
     ApiErrorOutcome(500)} \cup {OkOutcome(b) : b \in OkBodies}

\* ------------------------------------------------------------ operations
\* adapter.py 50-56: a connector, no session, nothing in progress
Fresh ==
    /\ session = "none"
    /\ connector = "open"
    /\ created = 0
    /\ closes = 0
    /\ call = [c \in Calls |-> IdleCall]

AdapterInit ==
    /\ config \in Configs
    /\ Fresh

ValidateIdle ==
    /\ vLimit = Absent
    /\ vOffset = Absent
    /\ vRating = Absent
    /\ vOut = NoError
    /\ vCalled = FALSE

TransformIdle ==
    /\ tBody = EmptyBody
    /\ tOut = NoResponse
    /\ tCalled = FALSE

HandleIdle ==
    /\ hError = NoError
    /\ hMethod = ""
    /\ hOut = NoResponse
    /\ hCalled = FALSE

KeywordsIdle ==
    /\ kMessage = <<>>
    /\ kMax = 0
    /\ kOut = <<>>
    /\ kCalled = FALSE

\* no GifService call in progress
NoService ==
    [pc |-> "idle", op |-> "", message |-> TextAbsent, isNone |-> TRUE, total |-> 0,
     gifs |-> <<>>, query_used |-> <<>>, raised |-> NoError]
ServiceIdle == svc = NoService

OthersIdle == HandleIdle /\ KeywordsIdle /\ ServiceIdle

Init == AdapterInit /\ ValidateIdle /\ TransformIdle /\ OthersIdle

Issue_MutSessionPerAttempt(c, k, a) ==
    /\ session' = "open"
    /\ created' = created + 1
    /\ call' = [call EXCEPT ![c] =
                 [k EXCEPT !.pc = "inflight", !.attempt = a,
                           !.requests = Append(@, [params |-> k.params,
                                                   session |-> created',
                                                   pool |-> connector])]]
    /\ UNCHANGED <<config, connector, closes>>

\* adapter.py 141-154 and 177-179: attempt a of call k gets or creates the session
\* and issues the GET
Issue(c, k, a) ==
    /\ session' = "open"
    /\ created' = IF session = "open" THEN created ELSE created + 1
    /\ call' = [call EXCEPT ![c] =
                 [k EXCEPT !.pc = "inflight", !.attempt = a,
                           !.requests = Append(@, [params |-> k.params,
                                                   session |-> created',
                                                   pool |-> connector])]]
    /\ UNCHANGED <<config, connector, closes>>

\* adapter.py 175: range(1, retry_attempts + 1) is empty
NoAttempts_MutZeroOnly(cfg) == cfg.retry_attempts = 0
NoAttempts(cfg) == cfg.retry_attempts < 1

\* adapter.py 199, 204, 208: last_error = ... in every except clause
Remember_MutKeepFirst(k, e) ==
    IF k.last_error = NoError THEN [k EXCEPT !.last_error = e] ELSE k
Remember(k, e) == [k EXCEPT !.last_error = e]

\* search_gifs, get_random_gif or health_check from its entry: the upfront checks
\* and, when they pass, the first attempt up to its network wait
Start(c, op, args) ==
    /\ call[c].pc = "idle"
    /\ LET prep == CASE op = "search_gifs" -> SearchPrepare(args, config)
                     [] op = "get_random_gif" -> SearchPrepare(RandomArgsOf(args), config)
                     [] OTHER -> [exc |-> NoError, params |-> HealthParams]
           k == [IdleCall EXCEPT !.op = op, !.args = args, !.params = prep.params]
       IN  IF prep.exc # NoError
           THEN /\ call' = [call EXCEPT ![c] = [k EXCEPT !.pc = "done",
                                                        !.params = NoParams,
                                                        !.raised = prep.exc]]
                /\ UNCHANGED <<config, session, connector, created, closes>>
           ELSE IF NoAttempts(config)
           THEN \* the loop has no iteration: 'raise None' is a TypeError
                /\ call' = [call EXCEPT ![c] =
                             Fail(k, Exc("TypeError",
                                         <<"exceptions must derive from BaseException">>))]
                /\ UNCHANGED <<config, session, connector, created, closes>>
           ELSE Issue(c, k, 1)

\* a caller starts search_gifs, get_random_gif or health_check
Invoke(c, op, args) == Start(c, op, args) /\ UNCHANGED pvars

\* adapter.py 179-215: the attempt in flight ends with outcome o
Finish(c, o) ==
    /\ call[c].pc = "inflight"
    /\ LET k == call[c]
           e == Caught(Raised(o))
           k0 == [k EXCEPT !.outcomes = Append(@, o)]
           k1 == Remember(k0, e)
       IN  \* a GET over a closed connection pool cannot reach upstream
           /\ k.requests[Len(k.requests)].pool = "closed" => o.kind = "transport"
           /\ IF Raised(o) = NoError
              THEN call' = [call EXCEPT ![c] = Succeed(k0, o.body)]
              ELSE IF WaitsAfter(k.attempt, config.retry_attempts)
              THEN call' = [call EXCEPT ![c] =
                             [k1 EXCEPT !.pc = "backoff",
                                        !.waits = Append(@, BackoffDelay(config.retry_delay,
                                                                         k.attempt))]]
              \* adapter.py 215: raise last_error
              ELSE call' = [call EXCEPT ![c] = Fail(k1, k1.last_error)]
    /\ UNCHANGED <<config, session, connector, created, closes>>

Respond(c, o) == Finish(c, o) /\ UNCHANGED pvars

WakeUp_MutOverlaps(c) ==
    /\ call[c].pc \in {"backoff", "inflight"}
    /\ call[c].attempt <= MaxRetry
    /\ Issue(c, call[c], call[c].attempt + 1)
    /\ UNCHANGED pvars

\* adapter.py 213 then 175-179: the backoff wait ends and the next attempt starts
WakeUp(c) ==
    /\ call[c].pc = "backoff"
    /\ call[c].attempt <= MaxRetry  \* the loop counter is capped
    /\ Issue(c, call[c], call[c].attempt + 1)
    /\ UNCHANGED pvars

\* the caller takes the result (or the exception); the slot is free again
Return(c) ==
    /\ call[c].pc = "done"
    /\ call' = [call EXCEPT ![c] = IdleCall]
    /\ UNCHANGED <<config, session, connector, created, closes>>
    /\ UNCHANGED pvars

Close_MutSessionOnly ==
    /\ closes < MaxCloses
    /\ closes' = closes + 1
    /\ session' = IF session = "open" THEN "closed" ELSE session
    /\ UNCHANGED <<config, connector, created, call>>
    /\ UNCHANGED pvars

\* adapter.py 324-329: close()
Close ==
    /\ closes < MaxCloses
    /\ closes' = closes + 1
    /\ session' = IF session = "open" THEN "closed" ELSE session
    /\ connector' = "closed"
    /\ UNCHANGED <<config, created, call>>
    /\ UNCHANGED pvars

\* one caller at a time, every input
Caller == 1

Next ==
    \/ \E a \in SearchArgs : Invoke(Caller, "search_gifs", a)
    \/ \E a \in RandomArgs : Invoke(Caller, "get_random_gif", a)
    \/ Invoke(Caller, "health_check", BaseArgs)
    \/ \E o \in AttemptOutcomes : Respond(Caller, o)
    \/ WakeUp(Caller)
    \/ Return(Caller)
    \/ Close

Spec == Init /\ [][Next]_vars

\* one caller whose every attempt and every backoff wait ends: search_gifs with a
\* valid, a whitespace-only and an empty query, and health_check, on an adapter
\* configured with any retry_attempts from -1 up
LiveOutcomes ==
    {TimeoutOutcome, TransportOutcome, ApiErrorOutcome(0), ApiErrorOutcome(500),
     OkOutcome(EmptyBody)}
LiveQueries == {PyText(Cat), PyText(<<" ", "\t">>), PyText(<<>>)}

InitLive ==
    /\ config \in {ConfigWith(LimitDefault, n, 1) : n \in (0 - 1)..MaxRetry}
    /\ Fresh
    /\ ValidateIdle /\ TransformIdle /\ OthersIdle

NextLive ==
    \/ \E q \in LiveQueries : Invoke(Caller, "search_gifs", [BaseArgs EXCEPT !.query = q])
    \/ Invoke(Caller, "health_check", BaseArgs)
    \/ \E o \in LiveOutcomes : Respond(Caller, o)
    \/ WakeUp(Caller)
    \/ Return(Caller)

\* aiohttp's total timeout ends every attempt (adapter.py 147), and asyncio.sleep
\* ends every wait (adapter.py 213)
SpecLive ==
    /\ InitLive
    /\ [][NextLive]_vars
    /\ WF_vars(\E o \in LiveOutcomes : Respond(Caller, o))
    /\ WF_vars(WakeUp(Caller))

\* ------------------------------------------------------------ GifService
\* service.py 66-75 and 103-110: the flat mapping of one item
FlatGif(gif) ==
    [id |-> gif.id, url |-> gif.original.url, preview_url |-> gif.preview.url,
     thumbnail_url |-> gif.thumbnail.url, width |-> gif.original.width,
     height |-> gif.original.height]

ServiceResult_MutReraises(s, k) ==
    IF k.raised # NoError THEN [s EXCEPT !.pc = "returned", !.raised = k.raised]
    ELSE IF k.result.success /\ ~k.result.dataNone /\ k.result.data # <<>>
    THEN [s EXCEPT !.pc = "returned", !.isNone = FALSE,
                   !.gifs = [i \in 1..Len(k.result.data) |-> FlatGif(k.result.data[i])]]
    ELSE [s EXCEPT !.pc = "returned"]

\* service.py 61-82 and 96-122: what the facade returns once the adapter call k
\* returned or raised
ServiceResult(s, k) ==
    IF k.raised # NoError THEN [s EXCEPT !.pc = "returned"]
    ELSE IF k.result.success /\ ~k.result.dataNone /\ k.result.data # <<>>
    THEN IF s.op = "search_gifs"
         THEN [s EXCEPT !.pc = "returned", !.isNone = FALSE,
                        !.total = IF k.result.pageNone THEN 0
                                  ELSE k.result.pagination.total,
                        !.gifs = [i \in 1..Len(k.result.data) |->
                                    FlatGif(k.result.data[i])]]
         ELSE [s EXCEPT !.pc = "returned", !.isNone = FALSE,
                        !.gifs = <<FlatGif(k.result.data[1])>>,
                        !.query_used = k.args.query.chars]
    ELSE [s EXCEPT !.pc = "returned"]

\* service.py 37-59 and 84-97: get_gif_for_message or search_gifs of the facade,
\* from its entry to its first network wait (or to its return)
ServiceInvoke(op, m, lim) ==
    /\ svc.pc = "idle"
    /\ LET s == [NoService EXCEPT !.op = op, !.message = m]
       IN  IF op = "get_gif_for_message" /\ (~Truthy(m) \/ m.ty # "str")
           THEN /\ svc' = [s EXCEPT !.pc = "returned"]
                /\ UNCHANGED avars
           ELSE /\ IF op = "get_gif_for_message"
                   THEN Start(Caller, "get_random_gif",
                              Args(PyText(extract_keywords(m.chars, MaxKeywordsDefault)),
                                   lim, Absent, Absent))
                   ELSE Start(Caller, "search_gifs", Args(m, lim, Absent, Absent))
                /\ svc' = IF call'[Caller].pc = "done" THEN ServiceResult(s, call'[Caller])
                          ELSE [s EXCEPT !.pc = "awaiting"]
    /\ UNCHANGED <<vvars, tvars, hvars, kvars>>

\* the adapter's attempt ends; when that ends the adapter call, the facade returns
ServiceRespond(o) ==
    /\ svc.pc = "awaiting"
    /\ Finish(Caller, o)
    /\ svc' = IF call'[Caller].pc = "done" THEN ServiceResult(svc, call'[Caller])
              ELSE svc
    /\ UNCHANGED <<vvars, tvars, hvars, kvars>>

\* the caller of the facade takes what it returned
ServiceDone ==
    /\ svc.pc = "returned"
    /\ svc' = NoService
    /\ call' = [call EXCEPT ![Caller] = IdleCall]
    /\ UNCHANGED <<config, session, connector, created, closes>>
    /\ UNCHANGED <<vvars, tvars, hvars, kvars>>

\* service.py 29-34: the facade's adapter makes 2 attempts and asks for 5 items
ServiceRetryAttempts == 2
ServiceLimit == 5
UserMessages ==
    {PyText(<<>>), PyText(<<" ", " ">>), TextNone, TextInt(5), PyText(Cat),
     PyText(<<"t", "h", "e", " ", "C", "a", "t">>)}
ServiceOutcomes ==
    {TransportOutcome, HttpOutcome(503), OkOutcome(EmptyBody),
     OkOutcome(Body(<<GoodGif>>, 100, 1, 0)),
     OkOutcome(Body(<<NoImagesGif, GoodGif>>, 2, 2, 0)),
     OkOutcome(Body(<<GoodGif, NullGif>>, 2, 2, 0))}

InitService ==
    /\ config = ConfigWith(ServiceLimit, ServiceRetryAttempts, 1)
    /\ Fresh
    /\ ValidateIdle /\ TransformIdle /\ OthersIdle

NextService ==
    \/ \E m \in UserMessages, lim \in {Absent, PyInt(0)} :
            ServiceInvoke("get_gif_for_message", m, lim)
    \/ \E m \in UserMessages, lim \in {Absent, PyInt(0)} :
            ServiceInvoke("search_gifs", m, lim)
    \/ \E o \in ServiceOutcomes : ServiceRespond(o)
    \/ svc.pc = "awaiting" /\ WakeUp(Caller)
    \/ ServiceDone

SpecService == InitService /\ [][NextService]_vars

\* several callers at once on one adapter: each awaits its own search_gifs or
\* health_check, and the event loop interleaves them at every await; close() is
\* called at most once
ConcOutcomes == {TransportOutcome, OkOutcome(EmptyBody)}
\* adapter.py 43: 'retry_attempts': 3
RetryAttemptsDefault == 3

InitConc ==
    /\ AdapterInit
    /\ config.retry_attempts = RetryAttemptsDefault
    /\ config.limit = PyInt(10) /\ config.retry_delay = 1
    /\ ValidateIdle
    /\ TransformIdle
    /\ OthersIdle

NextConc ==
    \/ \E c \in Calls : Invoke(c, "search_gifs", BaseArgs)
    \/ \E c \in Calls : Invoke(c, "health_check", BaseArgs)
    \/ \E c \in Calls : \E o \in ConcOutcomes : Respond(c, o)
    \/ \E c \in Calls : WakeUp(c)
    \/ \E c \in Calls : Return(c)
    \/ closes = 0 /\ Close

SpecConc == InitConc /\ [][NextConc]_vars

\* search_gifs on one upstream body: every sequence of up to MaxRecords sample
\* records, with upstream's own count and an offset
SampleGifs == {GoodGif, BadGif, NullGif, NoImagesGif, NonMapGif, NegGif}
SampleData == UNION {[1..n -> SampleGifs] : n \in 0..MaxRecords}
SampleBodies == {Body(d, 100, Len(d), off) : d \in SampleData, off \in {0, 25, -1}}

InitTransform ==
    /\ tBody \in SampleBodies
    /\ tOut = NoResponse
    /\ tCalled = FALSE
    /\ AdapterInit
    /\ config.retry_attempts = MaxRetry
    /\ config.retry_delay = 1
    /\ ValidateIdle
    /\ OthersIdle

\* adapter.py 87-89: return self._transform_response(response_data), under the try
CallTransform ==
    /\ ~tCalled
    /\ tCalled' = TRUE
    /\ tOut' = SearchReturn(tBody)
    /\ UNCHANGED tBody

NextTransform ==
    CallTransform /\ UNCHANGED avars /\ UNCHANGED vvars /\ UNCHANGED <<hvars, kvars, svc>>

SpecTransform == InitTransform /\ [][NextTransform]_vars

\* _handle_error alone: every class of exception the adapter meets, HTTP errors
\* with statuses at and around the class boundaries, with and without a text, for
\* every method name
HandleClasses ==
    {"GiphyTimeout", "GiphyValidation", "GiphyError", "ClientError", "TimeoutError",
     "TypeError", "ValueError"}
HandleStatuses == {0, 302, 399, 400, 404, 499, 500, 503, 599, 600}
HandleTexts == {<<>>, <<"boom">>}
HandleErrors ==
    {Exc(c, m) : c \in HandleClasses, m \in HandleTexts}
        \cup {[cls |-> "ClientResponseError", msg |-> m, status |-> st] :
                m \in HandleTexts, st \in HandleStatuses}
HandleMethods == {"search_gifs", "get_random_gif", "health_check"}

InitHandle ==
    /\ hError \in HandleErrors
    /\ hMethod \in HandleMethods
    /\ hOut = NoResponse
    /\ hCalled = FALSE
    /\ AdapterInit
    /\ config.retry_attempts = MaxRetry
    /\ config.retry_delay = 1
    /\ ValidateIdle /\ TransformIdle /\ KeywordsIdle /\ ServiceIdle

CallHandle ==
    /\ ~hCalled
    /\ hCalled' = TRUE
    /\ hOut' = _handle_error(hError, hMethod)
    /\ UNCHANGED <<hError, hMethod>>

NextHandle ==
    CallHandle /\ UNCHANGED avars /\ UNCHANGED <<vvars, tvars, kvars, svc>>

SpecHandle == InitHandle /\ [][NextHandle]_vars

\* extract_keywords alone: every message of up to MaxPieces pieces (words with
\* capitals, a stop word, a short word, whitespace), every max_keywords up to the
\* default
Pieces ==
    {<<"C", "a", "t">>, <<"t", "h", "e">>, <<"h", "i">>, <<"d", "o", "g", "s">>,
     <<" ">>, <<"\t">>}
RECURSIVE Concat(_)
Concat(ps) == IF ps = <<>> THEN <<>> ELSE Head(ps) \o Concat(Tail(ps))
Messages == {Concat(ps) : ps \in UNION {[1..n -> Pieces] : n \in 0..MaxPieces}}

InitKeywords ==
    /\ kMessage \in Messages
    /\ kMax \in 0..MaxKeywordsDefault
    /\ kOut = <<>>
    /\ kCalled = FALSE
    /\ AdapterInit
    /\ config.retry_attempts = MaxRetry
    /\ config.retry_delay = 1
    /\ ValidateIdle /\ TransformIdle /\ HandleIdle /\ ServiceIdle

CallKeywords ==
    /\ ~kCalled
    /\ kCalled' = TRUE
    /\ kOut' = extract_keywords(kMessage, kMax)
    /\ UNCHANGED <<kMessage, kMax>>

NextKeywords ==
    CallKeywords /\ UNCHANGED avars /\ UNCHANGED <<vvars, tvars, hvars, svc>>

SpecKeywords == InitKeywords /\ [][NextKeywords]_vars

\* validate_search_params alone, on every combination of its inputs
InitValidate ==
    /\ ValidateInit
    /\ AdapterInit
    /\ config.retry_attempts = MaxRetry
    /\ config.retry_delay = 1
    /\ TransformIdle
    /\ OthersIdle

NextValidate ==
    CallValidate /\ UNCHANGED avars /\ UNCHANGED tvars /\ UNCHANGED <<hvars, kvars, svc>>

SpecValidate == InitValidate /\ [][NextValidate]_vars

\* ---------------------------------------------------------------- claims
IsFailure(o) == Raised(o) # NoError
AllFailed(os) == \A i \in 1..Len(os) : IsFailure(os[i])
Last(s) == s[Len(s)]
BadQuery(q) == ~Truthy(q) \/ q.ty # "str"
\* a call that went through _make_request and came back to its caller
Finished(k) == k.pc = "done" /\ k.returned

\* C1: with retry_attempts = N >= 1 a search_gifs call issues at most N attempts:
\* exactly N when every attempt fails, and exactly k when attempt k is the first to
\* succeed; only the last attempt of a call can be a success.
C1_AttemptBudget ==
    \A c \in Calls :
        LET k == call[c]
            N == config.retry_attempts
        IN  (k.op = "search_gifs" /\ N >= 1) =>
              /\ Len(k.requests) <= N
              /\ Len(k.outcomes) <= Len(k.requests)
              /\ \A i \in 1..(Len(k.outcomes) - 1) : IsFailure(k.outcomes[i])
              /\ Finished(k) =>
                    /\ Len(k.requests) = Len(k.outcomes)
                    /\ AllFailed(k.outcomes) => Len(k.requests) = N
                    /\ ~AllFailed(k.outcomes) =>
                          /\ ~IsFailure(Last(k.outcomes))
                          /\ k.attempt = Len(k.requests)

C1_Witness ==
    \E c \in Calls :
        /\ call[c].op = "search_gifs" /\ Finished(call[c])
        /\ config.retry_attempts = 3
        /\ Len(call[c].requests) = 2
        /\ IsFailure(call[c].outcomes[1]) /\ ~IsFailure(call[c].outcomes[2])

C3_TransportIsNetworkError ==
    \A c \in Calls :
        LET k == call[c]
        IN  (/\ k.op = "search_gifs" /\ Finished(k) /\ config.retry_attempts = 3
             /\ k.outcomes = <<TransportOutcome, TransportOutcome, TransportOutcome>>)
            => /\ ~k.result.success
               /\ k.result.error.type = "NETWORK_ERROR"
               /\ Len(k.requests) = 3
               /\ k.waits = <<config.retry_delay, config.retry_delay * 2>>

\* C4: when every attempt of a search_gifs call gets the non-200 status s, the
\* Failure is CLIENT_ERROR for 400 <= s < 500 and SERVER_ERROR for 500 <= s < 600.
C4_StatusClassified ==
    \A c \in Calls :
        LET k == call[c]
        IN  (/\ k.op = "search_gifs" /\ Finished(k) /\ k.outcomes # <<>>
             /\ \A i \in 1..Len(k.outcomes) :
                   /\ k.outcomes[i].kind = "response"
                   /\ k.outcomes[i].status # 200
                   /\ k.outcomes[i].status = k.outcomes[1].status)
            => LET s == k.outcomes[1].status
               IN  /\ ~k.result.success
                   /\ (400 <= s /\ s < 500) => k.result.error.type = "CLIENT_ERROR"
                   /\ (500 <= s /\ s < 600) => k.result.error.type = "SERVER_ERROR"

\* C5: an attempt that times out counts as one attempt and is followed by the
\* usual backoff and retry; when the final attempt of a search_gifs call times out
\* the call returns a Failure of kind TIMEOUT.
C5_TimeoutRetriedThenReported ==
    \A c \in Calls :
        LET k == call[c]
            N == config.retry_attempts
        IN  k.op = "search_gifs" =>
              /\ \A i \in 1..Len(k.outcomes) :
                    k.outcomes[i].kind = "timeout" =>
                      /\ i <= Len(k.requests) /\ i <= N
                      /\ i < N => /\ Len(k.waits) >= i
                                  /\ k.waits[i] = config.retry_delay * i
                                  /\ k.pc \in {"backoff", "inflight", "done"}
                                  /\ k.pc # "backoff" => Len(k.requests) > i
                      /\ i = N => /\ Finished(k) /\ Len(k.waits) = N - 1
              /\ (Finished(k) /\ k.outcomes # <<>> /\ Last(k.outcomes).kind = "timeout") =>
                    /\ ~k.result.success
                    /\ ~k.result.errorNone
                    /\ k.result.error.type = "TIMEOUT"

C5_Witness ==
    \E c \in Calls :
        /\ call[c].op = "search_gifs" /\ Finished(call[c])
        /\ config.retry_attempts = 2
        /\ call[c].outcomes = <<TimeoutOutcome, TimeoutOutcome>>
        /\ Len(call[c].waits) = 1
        /\ call[c].result.error.type = "TIMEOUT"

\* C6: search_gifs with an empty or non-string query raises GiphyValidation, with
\* no network attempt, no backoff wait and no session acquired.
C6_BadQueryRaisesUpfront ==
    [][\A c \in Calls :
          (/\ call[c].pc = "idle" /\ call'[c].pc # "idle"
           /\ call'[c].op = "search_gifs" /\ BadQuery(call'[c].args.query))
          => /\ call'[c].pc = "done"
             /\ call'[c].raised.cls = "GiphyValidation"
             /\ ErrorTypeOf(call'[c].raised) = "VALIDATION_ERROR"
             /\ ~call'[c].returned
             /\ call'[c].requests = <<>> /\ call'[c].waits = <<>>
             /\ session' = session /\ created' = created]_vars

C6_Witness ==
    \E c \in Calls :
        /\ call[c].op = "search_gifs" /\ call[c].pc = "done"
        /\ call[c].args.query \in {PyText(<<>>), TextInt(123)}
        /\ call[c].raised.cls = "GiphyValidation"
        /\ session = "none" /\ created = 0

\* the claim's bad parameters: a limit that is no integer >= 1, an offset that is
\* no integer >= 0, a rating outside the four
BadParams(a) ==
    \/ a.limit.ty # "absent" /\ ~(IsInstanceInt(a.limit) /\ a.limit.n >= 1)
    \/ a.offset.ty # "absent" /\ ~(IsInstanceInt(a.offset) /\ a.offset.n >= 0)
    \/ a.rating.ty # "absent" /\ ~(a.rating.ty = "str" /\ a.rating.s \in ValidRatings)

\* C7: search_gifs with a bad limit, offset or rating surfaces the validation
\* failure of a bad query (GiphyValidation, VALIDATION_ERROR) before any attempt.
C7_BadParamsAreGiphyValidation ==
    \A c \in Calls :
        LET k == call[c]
        IN  (/\ k.op = "search_gifs" /\ k.pc = "done"
             /\ ~BadQuery(k.args.query) /\ BadParams(k.args))
            => /\ k.requests = <<>> /\ k.waits = <<>>
               /\ \/ k.raised.cls = "GiphyValidation"
                  \/ Finished(k) /\ ~k.result.success
                                 /\ k.result.error.type = "VALIDATION_ERROR"

\* C8: a search_gifs call that passed the upfront checks never raises: it returns
\* an envelope, which is a Failure (success = False, error set) exactly when the
\* request phase or the transform phase failed.
C8_NoRaiseAfterValidation ==
    \A c \in Calls :
        LET k == call[c]
            requestFailed == k.outcomes = <<>> \/ IsFailure(Last(k.outcomes))
            transformFailed ==
                /\ ~requestFailed
                /\ \E i \in 1..Len(Last(k.outcomes).body.data) :
                      RecordExc(Last(k.outcomes).body.data[i])
                          \notin {"", "ValueError", "KeyError"}
        IN  (/\ k.op = "search_gifs" /\ k.pc = "done"
             /\ SearchPrepare(k.args, config).exc = NoError)
            => /\ k.raised = NoError
               /\ k.returned
               /\ (requestFailed \/ transformFailed) <=> ~k.result.success
               /\ ~k.result.success =>
                     /\ ~k.result.errorNone /\ k.result.dataNone
                     /\ k.result.error.type # ""

C8_Witness ==
    \E c \in Calls :
        /\ call[c].op = "search_gifs" /\ Finished(call[c])
        /\ call[c].outcomes # <<>>
        /\ ~IsFailure(Last(call[c].outcomes))
        /\ Last(call[c].outcomes).body.data = <<GoodGif, NullGif>>
        /\ ~call[c].result.success
        /\ call[c].raised = NoError

\* C9: validate_search_params returns exactly for an integer limit in [1,50], an
\* integer offset >= 0 and a rating among g, pg, pg-13, r (missing arguments take
\* 10, 0 and pg); otherwise it raises, for the limit first, then the offset, then
\* the rating.
C9_ValidateExactly ==
    LET l == IF vLimit.ty = "absent" THEN PyInt(10) ELSE vLimit
        o == IF vOffset.ty = "absent" THEN PyInt(0) ELSE vOffset
        r == IF vRating.ty = "absent" THEN PyStr("pg") ELSE vRating
        okL == IsInstanceInt(l) /\ 1 <= l.n /\ l.n <= 50
        okO == IsInstanceInt(o) /\ 0 <= o.n
        okR == r.ty = "str" /\ r.s \in {"g", "pg", "pg-13", "r"}
    IN  vCalled =>
          /\ vOut = NoError <=> (okL /\ okO /\ okR)
          /\ ~okL => vOut.msg = <<"Limit must be an integer between 1 and 50">>
          /\ (okL /\ ~okO) => vOut.msg = <<"Offset must be a non-negative integer">>
          /\ (okL /\ okO /\ ~okR) =>
                /\ vOut.cls \in {"ValueError", "TypeError"}
                /\ vOut.msg \in {<<"Rating must be one of">>, <<"unhashable type">>}

C9_Witness ==
    /\ vCalled /\ vOut = NoError
    /\ vLimit = PyInt(50) /\ vOffset = PyInt(1000) /\ vRating = PyStr("r")

\* C10: for an integer limit > 50, given as an option or as the configured
\* default, every request of search_gifs carries limit = 50 and the limit does not
\* fail validation; for a limit in [1,50] every request carries that limit.
C10_LimitClamped ==
    \A c \in Calls :
        LET k == call[c]
            asked == IF k.args.limit.ty = "absent" THEN config.limit ELSE k.args.limit
            sent == IF asked.n > 50 THEN PyInt(50) ELSE asked
            othersFine ==
                ~BadParams([k.args EXCEPT !.limit = Absent])
        IN  (/\ k.op = "search_gifs" /\ k.pc # "idle" /\ ~BadQuery(k.args.query)
             /\ asked.ty = "int" /\ asked.n >= 1)
            => /\ \A i \in 1..Len(k.requests) : k.requests[i].params.limit = sent
               /\ k.raised.msg # <<"Limit must be an integer between 1 and 50">>
               /\ k.raised.msg # <<"'<' not supported">>
               /\ othersFine => k.raised = NoError
               /\ (othersFine /\ config.retry_attempts >= 1) => Len(k.requests) >= 1

C10_Witness ==
    \E c \in Calls :
        /\ call[c].op = "search_gifs" /\ Finished(call[c])
        /\ call[c].args.limit.ty = "absent" /\ config.limit = PyInt(60)
        /\ Len(call[c].requests) = 2
        /\ \A i \in 1..2 : call[c].requests[i].params.limit = PyInt(50)

\* the sample records by what upstream sent: the ones whose every numeral denotes
\* a number, and the number each numeral denotes
WellFormed(g) == g \in {GoodGif, NoImagesGif, NegGif}
Numeric(x) ==
    CASE x = N480 -> 480
      [] x = N270 -> 270
      [] x = NumStr(<<"9", "9">>) -> 99
      [] x = NumInt(200) -> 200
      [] x = NumStr(<<"1", "1", "3">>) -> 113
      [] x = NumStr(<<"7", "7">>) -> 77
      [] x = NumStr(<<"-", "5">>) -> 0 - 5
      [] OTHER -> 0
UpstreamSection(g, name) ==
    IF g.images.ty # "dict" THEN SecAbsent
    ELSE CASE name = "original" -> g.images.original
           [] name = "small" -> g.images.small
           [] OTHER -> g.images.still
\* the image a section should become; sized: whether size is carried over
ImageOf(g, name, sized) ==
    LET s == UpstreamSection(g, name)
    IN  [url |-> s.url, width |-> Numeric(s.width), height |-> Numeric(s.height),
         size |-> IF sized THEN Numeric(s.size) ELSE 0]
ItemOf(g, sized) ==
    [id |-> g.id, original |-> ImageOf(g, "original", TRUE),
     preview |-> ImageOf(g, "small", sized), thumbnail |-> ImageOf(g, "still", sized)]
RECURSIVE ItemsOf(_, _)
\* the items of the well-formed records of data, in upstream order
ItemsOf(data, sized) ==
    IF data = <<>> THEN <<>>
    ELSE (IF WellFormed(Head(data)) THEN <<ItemOf(Head(data), sized)>> ELSE <<>>)
         \o ItemsOf(Tail(data), sized)

\* C11: a record whose image section is malformed in any way that makes coercion
\* fail (non-numeric string, null, non-mapping section) is dropped alone:
\* search_gifs returns Success with exactly the other records, in upstream order,
\* and pagination.count is upstream's own count.
C11_MalformedDroppedAlone ==
    tCalled =>
        /\ tOut.success
        /\ Len(tOut.data) = Len(ItemsOf(tBody.data, FALSE))
        /\ \A i \in 1..Len(tOut.data) : tOut.data[i].id = ItemsOf(tBody.data, FALSE)[i].id
        /\ tOut.pagination.count = tBody.count

DelegatedOk(k) ==
    /\ k.outcomes # <<>>
    /\ ~IsFailure(Last(k.outcomes))
    /\ \A i \in 1..Len(Last(k.outcomes).body.data) :
            RecordExc(Last(k.outcomes).body.data[i]) \in {"", "ValueError"}

\* C13: get_random_gif delegates to search_gifs with limit = 1 and offset = 0
\* whatever limit or offset the caller passed; a delegated Success with zero items
\* gives success = True, data = None and a message, and one with at least one item
\* gives success = True with data the first item.
C13_RandomDelegates ==
    \A c \in Calls :
        LET k == call[c]
            items == ItemsOf(Last(k.outcomes).body.data, FALSE)
        IN  k.op = "get_random_gif" =>
              /\ \A i \in 1..Len(k.requests) :
                    /\ k.requests[i].params.limit = PyInt(1)
                    /\ k.requests[i].params.offset = PyInt(0)
              /\ k.raised.msg \notin {<<"Limit must be an integer between 1 and 50">>,
                                      <<"Offset must be a non-negative integer">>,
                                      <<"'<' not supported">>}
              /\ (Finished(k) /\ DelegatedOk(k)) =>
                    /\ k.result.success /\ k.result.errorNone
                    /\ items = <<>> =>
                          /\ k.result.dataNone
                          /\ k.result.message.text = "No GIF found for query"
                    /\ items # <<>> =>
                          /\ ~k.result.dataNone
                          /\ k.result.data = <<items[1]>>

C13_Witness ==
    \E c \in Calls :
        /\ call[c].op = "get_random_gif" /\ Finished(call[c])
        /\ call[c].args.limit = PyInt(0) /\ call[c].args.offset = PyInt(-1)
        /\ Len(call[c].requests) = 2
        /\ Last(call[c].outcomes).body.data = <<NoImagesGif, GoodGif>>
        /\ call[c].result.data = <<ItemOf(NoImagesGif, FALSE)>>

\* C14: get_random_gif returns the Success-shaped 'no result' only when the
\* delegated search succeeded with zero items; when the delegated search_gifs
\* returns a Failure, get_random_gif returns a Failure with the same error kind.
C14_RandomPropagatesFailure ==
    \A c \in Calls :
        LET k == call[c]
        IN  (/\ k.op = "get_random_gif" /\ Finished(k)
             /\ k.outcomes # <<>> /\ AllFailed(k.outcomes)) =>
              /\ ~k.result.success
              /\ ~k.result.errorNone
              /\ k.result.error.type = ErrorTypeOf(k.last_error)

\* C15: health_check never raises: for every sequence of attempt outcomes, also
\* after close(), it returns a status with a timestamp; healthy is True exactly
\* when some attempt within the retry budget returned HTTP 200 with meta.status
\* 200, and otherwise healthy is False together with the text of the last failure.
C15_HealthCheckNeverRaises ==
    \A c \in Calls :
        LET k == call[c]
            answered == \E i \in 1..Len(k.outcomes) :
                            /\ i <= config.retry_attempts
                            /\ k.outcomes[i].kind = "response"
                            /\ k.outcomes[i].status = 200 /\ k.outcomes[i].meta = 200
        IN  k.op = "health_check" =>
              /\ k.raised = NoError
              /\ k.pc = "done" =>
                    /\ k.returned /\ k.health.set /\ k.health.timestamp
                    /\ k.health.healthy <=> answered
                    /\ k.health.healthy => k.health.error = <<>>
                    /\ ~k.health.healthy => k.health.error # <<>>
                    /\ (~k.health.healthy /\ k.outcomes # <<>>) =>
                          k.health.error = Caught(Raised(Last(k.outcomes))).msg

C15_Witness ==
    \E c \in Calls :
        /\ call[c].op = "health_check" /\ Finished(call[c])
        /\ closes >= 1 /\ connector = "closed"
        /\ Len(call[c].outcomes) = 2
        /\ call[c].requests[1].pool = "closed"
        /\ ~call[c].health.healthy /\ call[c].health.timestamp
        /\ call[c].health.error = <<"Client error: ", "Connection failed">>

\* C16: close() is idempotent: with the session never created, open or already
\* closed, close() leaves the session (if any) and the connector closed, creates
\* nothing, disturbs no call, and a close() after the first changes nothing.
C16_CloseIdempotent ==
    [][closes' = closes + 1 =>
         /\ connector' = "closed"
         /\ session' = (IF session = "none" THEN "none" ELSE "closed")
         /\ created' = created /\ call' = call /\ config' = config
         /\ (connector = "closed" /\ session # "open") =>
                (session' = session /\ connector' = connector)]_vars

C16_Witness ==
    /\ closes = 2 /\ created = 1
    /\ session = "closed" /\ connector = "closed"

\* C17: an operation invoked after close() reacquires the pooled connection
\* resource: every attempt gets an open session backed by an open connection pool.
C17_PoolReacquired ==
    \A c \in Calls :
        \A i \in 1..Len(call[c].requests) :
            /\ call[c].requests[i].session >= 1
            /\ call[c].requests[i].pool = "open"

\* the session is lazy, and shared while nobody closed: none before the first
\* attempt, and then one that every attempt of every call uses
OneSharedSession ==
    /\ created <= 1
    /\ created = 0 <=> session = "none"
    /\ created = 0 => \A c \in Calls : call[c].requests = <<>>
    /\ \A c \in Calls : \A i \in 1..Len(call[c].requests) :
            call[c].requests[i].session = 1

\* C18: the session is acquired lazily and shared: no session exists before the
\* first attempt; for any number of search_gifs/health_check calls, sequential or
\* interleaved, with no close() in between, exactly one session is created and
\* every attempt uses it; a session is created only when the current one is
\* absent or closed.
C18_OneSharedSession ==
    [][/\ closes' = 0 => OneSharedSession'
       /\ created' # created =>
             /\ session # "open" /\ session' = "open" /\ created' = created + 1
             /\ \E c \in Calls : call'[c].pc = "inflight" /\ call[c].pc # "inflight"]_vars

C18_Witness ==
    /\ closes = 0 /\ created = 1 /\ session = "open"
    /\ call[1].pc = "inflight" /\ call[2].pc = "inflight"
    /\ call[1].op = "search_gifs" /\ call[2].op = "health_check"
    /\ Len(call[1].requests) = 2 /\ Len(call[2].requests) = 1
    /\ call[1].requests[2].session = 1 /\ call[2].requests[1].session = 1

ErrorTypes ==
    {"NETWORK_ERROR", "TIMEOUT", "CLIENT_ERROR", "SERVER_ERROR", "VALIDATION_ERROR",
     "UNKNOWN_ERROR"}

\* C19: every envelope search_gifs or get_random_gif returns is one of two
\* variants: a Failure (success = False) has data = None, pagination = None and an
\* error with type, message, method and timestamp; a Success (success = True) has
\* error = None.
C19_TwoVariants ==
    \A c \in Calls :
        LET k == call[c]
            r == k.result
        IN  (k.op \in {"search_gifs", "get_random_gif"} /\ Finished(k)) =>
              /\ r.success => (r.errorNone /\ r.error = NoErr)
              /\ ~r.success =>
                    /\ r.dataNone /\ r.data = <<>>
                    /\ r.pageNone /\ r.pagination = NoPage
                    /\ ~r.errorNone
                    /\ r.error.type \in ErrorTypes
                    /\ r.error.message = (IF k.outcomes # <<>> /\ ~IsFailure(Last(k.outcomes))
                                          THEN <<"transform">>
                                          ELSE IF k.outcomes = <<>>
                                          THEN <<"exceptions must derive from BaseException">>
                                          ELSE k.last_error.msg)
                    /\ r.error.method = "search_gifs"
                    /\ r.error.timestamp

C19_Witness ==
    \E c \in Calls :
        /\ call[c].op = "search_gifs" /\ Finished(call[c])
        /\ Len(call[c].outcomes) = 2 /\ AllFailed(call[c].outcomes)
        /\ ~call[c].result.success /\ call[c].result.dataNone /\ call[c].result.pageNone
        /\ call[c].result.error =
              [type |-> "TIMEOUT", message |-> <<"Request timeout">>,
               method |-> "search_gifs", timestamp |-> TRUE]

\* C20: in every Success search_gifs returns, for every upstream response, each
\* item's original, preview and thumbnail have width >= 0 and height >= 0, and
\* pagination.offset >= 0.
C20_NonNegative ==
    (tCalled /\ tOut.success) =>
        /\ \A i \in 1..Len(tOut.data) :
              \A im \in {tOut.data[i].original, tOut.data[i].preview,
                          tOut.data[i].thumbnail} :
                  im.width >= 0 /\ im.height >= 0
        /\ tOut.pagination.offset >= 0

\* the tokens of a message, declaratively: a token starts where a non-whitespace
\* character follows whitespace or nothing, and runs to the next whitespace
TokenStarts(m) ==
    {i \in 1..Len(m) : m[i] \notin Whitespace /\ (i = 1 \/ m[i - 1] \in Whitespace)}
TokenEnd(m, i) ==
    CHOOSE j \in i..Len(m) :
        /\ \A x \in i..j : m[x] \notin Whitespace
        /\ (j = Len(m) \/ m[j + 1] \in Whitespace)
TokenAt(m, i) == [x \in 1..(TokenEnd(m, i) - i + 1) |-> LowerChar(m[i + x - 1])]
Qualifies(m, i) == TokenEnd(m, i) - i + 1 > 2 /\ TokenAt(m, i) \notin stop_words
\* the starts of the first n qualifying tokens
FirstQualifying(m, n) ==
    {i \in TokenStarts(m) :
        /\ Qualifies(m, i)
        /\ Cardinality({j \in TokenStarts(m) : j < i /\ Qualifies(m, j)}) < n}
RECURSIVE Room(_, _)
\* the characters the tokens starting in S take, one space after each
Room(m, S) ==
    IF S = {} THEN 0
    ELSE LET i == CHOOSE x \in S : TRUE
         IN  Len(TokenAt(m, i)) + 1 + Room(m, S \ {i})
\* out is the tokens starting at the positions of S, in order, joined by single
\* spaces
IsJoinOf(out, m, S) ==
    /\ Len(out) = (IF S = {} THEN 0 ELSE Room(m, S) - 1)
    /\ \A i \in S :
          LET before == Room(m, {j \in S : j < i})
          IN  /\ SubSeq(out, before + 1, before + Len(TokenAt(m, i))) = TokenAt(m, i)
              /\ before > 0 => out[before] = " "

\* C26: extract_keywords(message, max_keywords) returns the first max_keywords
\* lower-cased whitespace-separated tokens of message that are longer than 2
\* characters and are not stop words, in their original order, joined by single
\* spaces; when no token qualifies it returns the message stripped of surrounding
\* whitespace, so the empty message gives the empty string.
C26_Keywords ==
    kCalled =>
        LET all == {i \in TokenStarts(kMessage) : Qualifies(kMessage, i)}
        IN  /\ all # {} => IsJoinOf(kOut, kMessage, FirstQualifying(kMessage, kMax))
            /\ all = {} =>
                  /\ \E a, b \in 0..Len(kMessage) :
                        /\ kOut = SubSeq(kMessage, a + 1, Len(kMessage) - b)
                        /\ \A x \in 1..Len(kMessage) :
                              (x <= a \/ x > Len(kMessage) - b) => kMessage[x] \in Whitespace
                  /\ kOut # <<>> => (kOut[1] \notin Whitespace
                                      /\ kOut[Len(kOut)] \notin Whitespace)
                  /\ kMessage = <<>> => kOut = <<>>

C26_Witness ==
    /\ kCalled /\ kMax = 1
    /\ kMessage = <<"C", "a", "t", "\t", "d", "o", "g", "s">>
    /\ kOut = <<"c", "a", "t">>

\* C21: the facade never raises and never exposes error detail:
\* get_gif_for_message and search_gifs return None whenever the adapter result is
\* a Failure, a Success with no item, or an exception (the validation exception of
\* an empty query, or an invalid, empty or non-string user message, included), and
\* return a flat mapping only for a Success with at least one item.
C21_FacadeNeverRaises ==
    LET k == call[Caller]
        items == k.pc = "done" /\ k.returned /\ k.result.success
                 /\ ~k.result.dataNone /\ k.result.data # <<>>
    IN  /\ svc.raised = NoError
        /\ svc.pc = "awaiting" => k.pc \in {"inflight", "backoff"}
        /\ svc.pc = "returned" =>
              /\ svc.isNone <=> ~items
              /\ svc.isNone => (svc.gifs = <<>> /\ svc.total = 0 /\ svc.query_used = <<>>)
              /\ (svc.op = "get_gif_for_message" /\ (~Truthy(svc.message)
                                                      \/ svc.message.ty # "str"))
                    => (svc.isNone /\ k.pc = "idle")
              /\ ~svc.isNone =>
                    /\ Len(svc.gifs) = (IF svc.op = "search_gifs" THEN Len(k.result.data)
                                         ELSE 1)
                    /\ \A i \in 1..Len(svc.gifs) :
                          /\ svc.gifs[i].id = k.result.data[i].id
                          /\ svc.gifs[i].width = k.result.data[i].original.width

C21_Witness ==
    /\ svc.pc = "returned" /\ svc.op = "get_gif_for_message" /\ svc.isNone
    /\ svc.message = PyText(<<" ", " ">>)
    /\ call[Caller].raised.cls = "GiphyValidation"

\* what a failed attempt reads like once _make_request has caught it
FailureText(o) ==
    CASE o.kind = "timeout" -> <<"Request timeout">>
      [] o.kind = "transport" -> <<"Client error: ", "Connection failed">>
      [] o.status # 200 -> <<"Client error: ", "HTTP ", ToString(o.status)>>
      [] OTHER -> <<"Giphy API Error: ", IF o.meta = 0 THEN "Unknown error" ELSE "msg">>

\* C22: when all retry_attempts attempts of a call fail, with possibly different
\* failures, the failure _make_request raises and the returned Failure describes
\* (kind and message) is the one of the final attempt, never of an earlier one.
C22_LastFailureSurfaces ==
    \A c \in Calls :
        LET k == call[c]
            final == Caught(Raised(Last(k.outcomes)))
        IN  (/\ k.op = "search_gifs" /\ Finished(k)
             /\ k.outcomes # <<>> /\ AllFailed(k.outcomes)) =>
              /\ Len(k.outcomes) = config.retry_attempts
              /\ k.last_error = final
              /\ ~k.result.success
              /\ k.result.error.message = FailureText(Last(k.outcomes))
              /\ k.result.error.type = ErrorTypeOf(final)
              /\ k.result.error.type = "TIMEOUT" <=> Last(k.outcomes).kind = "timeout"

C22_Witness ==
    \E c \in Calls :
        /\ call[c].op = "search_gifs" /\ Finished(call[c])
        /\ Len(call[c].outcomes) = 3
        /\ call[c].outcomes[1] = HttpOutcome(503)
        /\ call[c].outcomes[2] = TransportOutcome
        /\ call[c].outcomes[3] = TimeoutOutcome
        /\ call[c].result.error.type = "TIMEOUT"
        /\ call[c].result.error.message = <<"Request timeout">>

IsApiError(o) == o.kind = "response" /\ o.status = 200 /\ o.meta # 200

\* C23: an attempt that receives HTTP 200 with a body whose meta.status is not 200
\* (or is absent) is a failed attempt: it never yields Success, it is retried with
\* backoff like any other failure, and the failure it produces is distinguishable
\* in the returned Failure envelope from a transport-level failure.
C23_ApiErrorIsFailure ==
    LET k == call[Caller]
        n == config.retry_attempts
    IN  k.op = "search_gifs" =>
          /\ \A i \in 1..Len(k.outcomes) : IsApiError(k.outcomes[i]) =>
                /\ i < n => /\ Len(k.waits) >= i
                            /\ k.waits[i] = config.retry_delay * i
                            /\ k.pc = "backoff" \/ Len(k.requests) > i
                /\ i = n => (k.pc = "done" /\ ~k.result.success)
                /\ k.result.success => i < Len(k.outcomes)
          /\ (Finished(k) /\ k.outcomes # <<>> /\ IsApiError(Last(k.outcomes))) =>
                /\ ~k.result.success /\ ~k.result.errorNone
                /\ k.result.error.message = FailureText(Last(k.outcomes))
                /\ \A o \in {TransportOutcome, TimeoutOutcome, HttpOutcome(503)} :
                      k.result.error.message # FailureText(o)

C23_Witness ==
    /\ call[Caller].op = "search_gifs" /\ Finished(call[Caller])
    /\ call[Caller].outcomes = <<ApiErrorOutcome(500), ApiErrorOutcome(0)>>
    /\ call[Caller].waits = <<1>>
    /\ call[Caller].result.error.message = <<"Giphy API Error: ", "Unknown error">>

\* C27: every search_gifs call terminates: provided each attempt and each backoff
\* wait terminates, the call eventually returns an envelope or raises the upfront
\* validation failure, after a number of attempts and waits bounded by
\* retry_attempts, for every sequence of attempt outcomes.
C27_Terminates ==
    /\ [](call[Caller].op = "search_gifs" =>
            /\ Len(call[Caller].requests) <= config.retry_attempts
                \/ call[Caller].requests = <<>>
            /\ Len(call[Caller].waits) < config.retry_attempts
                \/ call[Caller].waits = <<>>
            /\ call[Caller].pc = "done" =>
                  \/ call[Caller].returned /\ call[Caller].raised = NoError
                  \/ ~call[Caller].returned /\ call[Caller].raised.cls = "GiphyValidation")
    /\ (call[Caller].op = "search_gifs" /\ call[Caller].pc \in {"inflight", "backoff"})
          ~> (call[Caller].op = "search_gifs" /\ call[Caller].pc = "done")

C27_Witness ==
    /\ call[Caller].op = "search_gifs" /\ Finished(call[Caller])
    /\ config.retry_attempts = MaxRetry
    /\ Len(call[Caller].requests) = MaxRetry /\ Len(call[Caller].waits) = MaxRetry - 1
    /\ AllFailed(call[Caller].outcomes)

\* C28: every network attempt issued by search_gifs carries a non-empty q: a
\* query that is empty after trimming surrounding whitespace is rejected by
\* validation with zero network attempts, exactly like the empty query.
C28_NonEmptyQ ==
    LET k == call[Caller]
    IN  k.op = "search_gifs" =>
          /\ \A i \in 1..Len(k.requests) : k.requests[i].params.q # <<>>
          /\ (k.pc # "idle" /\ Strip(k.args.query.chars) = <<>>) =>
                (k.requests = <<>> /\ k.raised.cls = "GiphyValidation")

\* C30: with retry_attempts <= 0 a validated search_gifs call makes zero network
\* attempts and zero backoff waits and still returns a Failure envelope (kind
\* UNKNOWN_ERROR) rather than raising or returning Success, and health_check
\* returns healthy = False.
C30_NoAttemptsIsFailure ==
    LET k == call[Caller]
    IN  (config.retry_attempts <= 0 /\ k.pc # "idle") =>
          /\ k.pc = "done"
          /\ k.requests = <<>> /\ k.waits = <<>> /\ k.outcomes = <<>>
          /\ created = 0 /\ session = "none"
          /\ (k.op = "search_gifs" /\ ~BadQuery(k.args.query)) =>
                /\ k.returned /\ k.raised = NoError
                /\ ~k.result.success /\ k.result.dataNone
                /\ k.result.error.type = "UNKNOWN_ERROR"
          /\ k.op = "health_check" =>
                /\ k.returned /\ k.raised = NoError
                /\ k.health.set /\ ~k.health.healthy

C30_Witness ==
    /\ config.retry_attempts = 0 - 1
    /\ call[Caller].op = "search_gifs" /\ Finished(call[Caller])
    /\ call[Caller].requests = <<>>
    /\ call[Caller].result.error.type = "UNKNOWN_ERROR"

\* one call's attempts are strictly one after the other
Sequential(k) ==
    /\ Len(k.requests) = k.attempt
    /\ Len(k.requests) - Len(k.outcomes) \in {0, 1}
    /\ Len(k.requests) - Len(k.outcomes) = 1 <=> k.pc = "inflight"
    /\ k.pc = "inflight" => Len(k.waits) = k.attempt - 1
    /\ k.pc = "backoff" => (Len(k.waits) = k.attempt /\ k.attempt < config.retry_attempts)
    /\ \A i \in 1..Len(k.outcomes) : i < Len(k.outcomes) => IsFailure(k.outcomes[i])
\* what a finished search_gifs or health_check returns, from its own outcomes
OwnResult(k) ==
    /\ k.raised = NoError
    /\ Len(k.outcomes) = (IF IsFailure(Last(k.outcomes)) THEN config.retry_attempts
                           ELSE Len(k.requests))
    /\ k.op = "search_gifs" =>
          k.result = (IF IsFailure(Last(k.outcomes))
                      THEN _handle_error(Caught(Raised(Last(k.outcomes))), "search_gifs")
                      ELSE SearchReturn(Last(k.outcomes).body))
    /\ k.op = "health_check" => (k.health.healthy <=> ~IsFailure(Last(k.outcomes)))

\* C24: within one search_gifs call at most one attempt is in flight at any time:
\* attempt a+1 starts only after attempt a has finished and its backoff wait has
\* elapsed; attempts of different concurrent calls interleave in any order and
\* each call's attempt count and result depend only on its own attempt outcomes.
C24_OneAttemptInFlight ==
    [][\A c \in Calls :
          /\ call'[c].pc # "idle" => Sequential(call'[c])
          /\ (call'[c].pc = "done" /\ call'[c].returned) => OwnResult(call'[c])
          /\ (call[c].pc # "idle" /\ Len(call'[c].requests) > Len(call[c].requests)) =>
                /\ call[c].pc = "backoff"
                /\ Len(call[c].outcomes) = call[c].attempt
                /\ Len(call[c].waits) = call[c].attempt
                /\ call'[c].attempt = call[c].attempt + 1
          /\ call'[c] # call[c] => \A d \in Calls \ {c} : call'[d] = call[d]]_vars

C24_Witness ==
    /\ call[1].op = "search_gifs" /\ call[2].op = "search_gifs"
    /\ call[1].pc = "inflight" /\ call[1].attempt = 2
    /\ call[2].pc = "inflight" /\ call[2].attempt = 3
    /\ Len(call[1].requests) = 2 /\ Len(call[2].requests) = 3

\* C25: _handle_error is total and maps every failure to exactly one ErrorType:
\* GiphyTimeout to TIMEOUT (before any network classification), GiphyValidation
\* to VALIDATION_ERROR, a status-carrying HTTP error to CLIENT_ERROR for [400,500)
\* and SERVER_ERROR for [500,600), any other transport error to NETWORK_ERROR,
\* everything else to UNKNOWN_ERROR; the envelope's message is the failure's text
\* and its method names the operation.
C25_HandleErrorTotal ==
    hCalled =>
        /\ ~hOut.success /\ hOut.dataNone /\ hOut.pageNone /\ ~hOut.errorNone
        /\ hOut.error.type \in ErrorTypes
        /\ hOut.error.type =
              (CASE hError.cls = "GiphyTimeout" -> "TIMEOUT"
                 [] hError.cls = "GiphyValidation" -> "VALIDATION_ERROR"
                 [] hError.cls = "ClientResponseError" /\ hError.status \in 400..499 ->
                        "CLIENT_ERROR"
                 [] hError.cls = "ClientResponseError" /\ hError.status \in 500..599 ->
                        "SERVER_ERROR"
                 [] hError.cls = "ClientError" -> "NETWORK_ERROR"
                 [] OTHER -> "UNKNOWN_ERROR")
        /\ hOut.error.message = hError.msg
        /\ hOut.error.method = hMethod
        /\ hOut.error.timestamp

C25_Witness ==
    /\ hCalled /\ hError.cls = "ClientResponseError" /\ hError.status = 499
    /\ hMethod = "health_check"
    /\ hOut.error.type = "CLIENT_ERROR" /\ hOut.error.message = <<"boom">>

\* C29: for any interleaving of search_gifs calls with close(): once a close()
\* has returned, no open session exists unless some operation was started after
\* it: a search in flight or in a backoff wait when close() ran does not leave a
\* newly created, never-closed session behind.
C29_NoSessionAfterClose ==
    [][(closes >= 1 /\ session # "open" /\ session' = "open") =>
          \E c \in Calls : call[c].pc = "idle" /\ call'[c].pc = "inflight"]_vars

====
